---- MODULE Spec2Model ----
(***************************************************************************)
(* Edge Runner (src/edgerunner.js): the batch archiving handler            *)
(* (/rhythm/echo: fragment parsing, tab reassembly, metric aggregation)    *)
(* and the live streaming handler (/rhythm/: score field updates).         *)
(*                                                                         *)
(* The source file holds two revisions of the program: lines 1-357 (the    *)
(* earlier one) and lines 359-825 (the later one).  The variable rev       *)
(* selects the revision a behaviour runs.                                  *)
(*                                                                         *)
(* JavaScript strings are modelled as sequences of one-character strings,  *)
(* so that split, join, slice and the regular expressions of the source    *)
(* are computed character by character.                                    *)
(***************************************************************************)
EXTENDS Integers, Sequences, FiniteSets, TLC

VARIABLES
    rev,        \* revision of the program: "early" or "late"
    pc,         \* position of the batch archiving handler
    body,       \* the batch payload: the rhythm_<n>=<record> blocks, in order
    map,        \* map: tab number -> parsed fragment
    first,      \* the anchor tab number (first / '1')
    loop,       \* reassembly loop state: current, index, flow (+ history)
    merge,      \* the merged record
    response,   \* the handler's answer
    fullscore,  \* env.fullscore is set (never read when ARCHIVING.AI is false)
    ai,         \* the summarization call: none, skipped, pending, succeeded, failed
    lpc,        \* position of the live streaming handler
    cookie,     \* the client-held score cookie value
    req,        \* the live streaming request being served
    score,      \* match.score of the request being served
    save,       \* match.score[0] as received
    setCookie,  \* Set-Cookie value of the last live streaming response
    rhythm,     \* the rhythm_<n> cookie values of the request, in cookie order
    cursor,     \* rhythm.lastIndex: where the next exec of scan's loop starts
    data,       \* data.beat of the rhythm cookie examined last
    calls,      \* the detector calls of the scan, in order (history)
    inflight    \* Set-Cookie values sent and not yet applied by the client

vars == <<rev, pc, body, map, first, loop, merge, response, fullscore, ai,
          lpc, cookie, req, score, save, setCookie,
          rhythm, cursor, data, calls, inflight>>

echoVars == <<pc, body, map, first, loop, merge, response, fullscore, ai>>
liveVars == <<lpc, cookie, req, score, save, setCookie,
              rhythm, cursor, data, calls, inflight>>
scanVars == <<rhythm, cursor, data, calls>>

(***************************************************************************)
(* JavaScript values                                                       *)
(***************************************************************************)

\* undefined (an array read past the end, a missing map entry)
Undefined == <<"undefined">>

\* null
Null == <<"null">>

\* A JavaScript number: NaN, or an integer value.
NaN == [nan |-> TRUE, val |-> 0]

Num(n) == [nan |-> FALSE, val |-> n]

\* x + y on numbers (NaN is absorbing)
Plus(x, y) == IF x.nan \/ y.nan THEN NaN ELSE Num(x.val + y.val)

Digits == {"0", "1", "2", "3", "4", "5", "6", "7", "8", "9"}

IsDigit(c) == c \in Digits

DigitVal(c) ==
    CASE c = "0" -> 0 [] c = "1" -> 1 [] c = "2" -> 2 [] c = "3" -> 3
      [] c = "4" -> 4 [] c = "5" -> 5 [] c = "6" -> 6 [] c = "7" -> 7
      [] c = "8" -> 8 [] c = "9" -> 9

DigitChar(n) ==
    CASE n = 0 -> "0" [] n = 1 -> "1" [] n = 2 -> "2" [] n = 3 -> "3"
      [] n = 4 -> "4" [] n = 5 -> "5" [] n = 6 -> "6" [] n = 7 -> "7"
      [] n = 8 -> "8" [] n = 9 -> "9"

AllDigits(s) == \A i \in 1..Len(s) : IsDigit(s[i])

RECURSIVE DecimalValue(_)
\* value of a string of decimal digits
DecimalValue(s) ==
    IF s = <<>> THEN 0
    ELSE 10 * DecimalValue(SubSeq(s, 1, Len(s) - 1)) + DigitVal(s[Len(s)])

RECURSIVE DecimalString(_)
\* String(n) for an integer n >= 0
DecimalString(n) ==
    IF n < 10 THEN <<DigitChar(n)>>
    ELSE Append(DecimalString(n \div 10), DigitChar(n % 10))

\* Unary plus / Number(): undefined -> NaN, "" -> 0, decimal digits -> their
\* value, any other text of the model's alphabet -> NaN.
ToNumber(s) ==
    IF s = Undefined THEN NaN
    ELSE IF AllDigits(s) THEN Num(DecimalValue(s))
    ELSE NaN

(***************************************************************************)
(* String operations                                                       *)
(***************************************************************************)

\* s.slice(from) with from counted from 0
SliceFrom(s, from) == SubSeq(s, from + 1, Len(s))

\* s.startsWith(p)
StartsWith(s, p) == Len(s) >= Len(p) /\ SubSeq(s, 1, Len(p)) = p

EndsWith(s, p) == Len(s) >= Len(p) /\ SubSeq(s, Len(s) - Len(p) + 1, Len(s)) = p

\* arr[i] with i counted from 0: undefined past the end
At(arr, i) == IF i + 1 <= Len(arr) THEN arr[i + 1] ELSE Undefined

RECURSIVE SplitFrom(_, _, _)
\* the parts of acc \o s, cut at every sep of s
SplitFrom(s, sep, acc) ==
    LET seps == {i \in 1..Len(s) : s[i] = sep}
    IN IF seps = {} THEN <<acc \o s>>
       ELSE LET k == CHOOSE x \in seps : \A y \in seps : x <= y
            IN <<acc \o SubSeq(s, 1, k - 1)>>
                  \o SplitFrom(SubSeq(s, k + 1, Len(s)), sep, <<>>)

\* s.split(sep) for a one-character separator
Split(s, sep) == SplitFrom(s, sep, <<>>)

RECURSIVE Join(_, _)
\* parts.join(sep)
Join(parts, sep) ==
    IF parts = <<>> THEN <<>>
    ELSE IF Len(parts) = 1 THEN parts[1]
    ELSE parts[1] \o <<sep>> \o Join(Tail(parts), sep)

RECURSIVE Concat(_)
Concat(parts) == IF parts = <<>> THEN <<>> ELSE Head(parts) \o Concat(Tail(parts))

Underscores == <<"_", "_", "_">>

\* /___\d+/ matches at position i (counted from 1)
MarkerAt(s, i) ==
    /\ i + 3 <= Len(s)
    /\ SubSeq(s, i, i + 2) = Underscores
    /\ IsDigit(s[i + 3])

RECURSIVE DigitsEnd(_, _)
\* last position of the run of digits that starts at position i
DigitsEnd(s, i) ==
    IF i + 1 <= Len(s) /\ IsDigit(s[i + 1]) THEN DigitsEnd(s, i + 1) ELSE i

RECURSIVE SplitMarkersFrom(_, _, _)
SplitMarkersFrom(s, i, start) ==
    IF i > Len(s) THEN <<SubSeq(s, start, Len(s))>>
    ELSE IF MarkerAt(s, i)
         THEN LET e == DigitsEnd(s, i + 3)
              IN <<SubSeq(s, start, i - 1), SubSeq(s, i, e)>>
                    \o SplitMarkersFrom(s, e + 1, e + 1)
         ELSE SplitMarkersFrom(s, i + 1, start)

\* s.split(/(___\d+)/).filter(Boolean): the texts between the tab-switch
\* markers and the markers themselves, empty strings dropped
SplitMarkers(s) == SelectSeq(SplitMarkersFrom(s, 1, 1), LAMBDA t : t # <<>>)

(***************************************************************************)
(* Configuration                                                           *)
(***************************************************************************)

\* const TIC = 100 (milliseconds per tick)
TIC == 100

\* ARCHIVING.TIME, ARCHIVING.HASH, ARCHIVING.SPACE
ArchivingTime == FALSE

ArchivingHash == FALSE

ArchivingSpace == TRUE

\* ARCHIVING.AI (early: true, late: false)
ArchivingAI(r) == r = "early"

\* ARCHIVING.BOUNCE
ArchivingBounce == 1

\* TOK = { P:'!', E:'*', T:'~', A:'/' }
TokP == "!"

TokE == "*"

TokT == "~"

TokA == "/"

(***************************************************************************)
(* Batch archiving handler: fragment parsing                               *)
(***************************************************************************)

\* const parts = split[1].split('_'); map[number] = {time: parts[1], ...}
ParseRecord(record) ==
    LET parts == Split(record, "_")
    IN [time     |-> At(parts, 1),
        hash     |-> At(parts, 2),
        device   |-> ToNumber(At(parts, 3)),
        referrer |-> ToNumber(At(parts, 4)),
        scrolls  |-> ToNumber(At(parts, 5)),
        clicks   |-> ToNumber(At(parts, 6)),
        duration |-> ToNumber(At(parts, 7)),
        beat     |-> SplitMarkers(Join(SubSeq(parts, 9, Len(parts)), "_"))]

RECURSIVE ParseBlocks(_, _)
\* for (let i = 0; i < match.length; i++) map[number] = {...}: a later block
\* with the same number replaces the earlier one
ParseBlocks(blocks, m) ==
    IF blocks = <<>> THEN m
    ELSE LET b == Head(blocks)
             f == ParseRecord(b.record)
         IN ParseBlocks(Tail(blocks),
                [k \in DOMAIN m \cup {b.number} |->
                    IF k = b.number THEN f ELSE m[k]])

EmptyMap == [k \in {} |-> Undefined]

RECURSIVE SetMin(_)
\* Math.min(...values) of a non-empty set of integers
SetMin(S) ==
    LET x == CHOOSE y \in S : TRUE
    IN IF S = {x} THEN x
       ELSE LET r == SetMin(S \ {x}) IN IF x < r THEN x ELSE r

\* late:  const first = String(Math.min(...Object.keys(map).map(Number)));
FirstLate(m) == DecimalString(SetMin({DecimalValue(k) : k \in DOMAIN m}))

\* early: let current = '1';
FirstEarly(m) == <<"1">>

First(r, m) == IF r = "late" THEN FirstLate(m) ELSE FirstEarly(m)

(***************************************************************************)
(* Batch archiving handler: reassembly loop                                *)
(***************************************************************************)

\* let current = first; let flow = ''; const index = {};
\* taken records, for every appended token, the (tab, index) it was read
\* from; running tells whether the loop is still being executed.
LoopInit(m, f) ==
    [current  |-> f,
     index    |-> [k \in DOMAIN m |-> 0],
     flow     |-> <<>>,
     taken    |-> <<>>,
     running  |-> TRUE]

\* LoopStep without the cursor advance (index[current] = i + 1 dropped)
LoopStepStuck(m, st) ==
    IF st.current \notin DOMAIN m THEN [st EXCEPT !.running = FALSE]
    ELSE LET i == st.index[st.current]
         IN IF i >= Len(m[st.current].beat) THEN [st EXCEPT !.running = FALSE]
            ELSE LET token == m[st.current].beat[i + 1]
                 IN [current |-> IF StartsWith(token, Underscores)
                                 THEN SliceFrom(token, 3) ELSE st.current,
                     index   |-> st.index,
                     flow    |-> st.flow \o token,
                     taken   |-> Append(st.taken, <<st.current, i>>),
                     running |-> TRUE]

\* LoopStep entering the target of a switch at its start (cursor reset)
LoopStepRestart(m, st) ==
    IF st.current \notin DOMAIN m THEN [st EXCEPT !.running = FALSE]
    ELSE LET i == st.index[st.current]
         IN IF i >= Len(m[st.current].beat) THEN [st EXCEPT !.running = FALSE]
            ELSE LET token == m[st.current].beat[i + 1]
                     next  == IF StartsWith(token, Underscores)
                              THEN SliceFrom(token, 3) ELSE st.current
                 IN [current |-> next,
                     index   |-> [k \in DOMAIN st.index |->
                                    IF k = next /\ next # st.current THEN 0
                                    ELSE IF k = st.current THEN i + 1
                                    ELSE st.index[k]],
                     flow    |-> st.flow \o token,
                     taken   |-> Append(st.taken, <<st.current, i>>),
                     running |-> TRUE]

\* LoopStep that appends the switch marker but stays on the current tab
LoopStepNoSwitch(m, st) ==
    IF st.current \notin DOMAIN m THEN [st EXCEPT !.running = FALSE]
    ELSE LET i == st.index[st.current]
         IN IF i >= Len(m[st.current].beat) THEN [st EXCEPT !.running = FALSE]
            ELSE LET token == m[st.current].beat[i + 1]
                 IN [current |-> st.current,
                     index   |-> [st.index EXCEPT ![st.current] = i + 1],
                     flow    |-> st.flow \o token,
                     taken   |-> Append(st.taken, <<st.current, i>>),
                     running |-> TRUE]

\* LoopStep that ignores a switch whose target is not in the map
LoopStepSkipAbsent(m, st) ==
    IF st.current \notin DOMAIN m THEN [st EXCEPT !.running = FALSE]
    ELSE LET i == st.index[st.current]
         IN IF i >= Len(m[st.current].beat) THEN [st EXCEPT !.running = FALSE]
            ELSE LET token == m[st.current].beat[i + 1]
                 IN [current |-> IF /\ StartsWith(token, Underscores)
                                    /\ SliceFrom(token, 3) \in DOMAIN m
                                 THEN SliceFrom(token, 3) ELSE st.current,
                     index   |-> [st.index EXCEPT ![st.current] = i + 1],
                     flow    |-> st.flow \o token,
                     taken   |-> Append(st.taken, <<st.current, i>>),
                     running |-> TRUE]

\* One evaluation of the loop condition and body:
\*   while (map[current]) {
\*     const i = index[current] || 0;
\*     if (i >= map[current].beat.length) break;
\*     const token = map[current].beat[i];
\*     index[current] = i + 1;
\*     flow += token;
\*     if (token.startsWith('___')) current = token.slice(3);
\*   }
LoopStep(m, st) ==
    IF st.current \notin DOMAIN m THEN [st EXCEPT !.running = FALSE]
    ELSE LET i == st.index[st.current]
         IN IF i >= Len(m[st.current].beat) THEN [st EXCEPT !.running = FALSE]
            ELSE LET token == m[st.current].beat[i + 1]
                 IN [current |-> IF StartsWith(token, Underscores)
                                 THEN SliceFrom(token, 3) ELSE st.current,
                     index   |-> [st.index EXCEPT ![st.current] = i + 1],
                     flow    |-> st.flow \o token,
                     taken   |-> Append(st.taken, <<st.current, i>>),
                     running |-> TRUE]

RECURSIVE LoopRun(_, _)
\* the loop run to its end
LoopRun(m, st) == IF st.running THEN LoopRun(m, LoopStep(m, st)) ELSE st

(***************************************************************************)
(* Batch archiving handler: merge                                          *)
(***************************************************************************)

RECURSIVE SumOver(_, _, _)
\* merge.x = 0; for (const number in map) merge.x += map[number].x
SumOver(m, keys, field) ==
    IF keys = {} THEN Num(0)
    ELSE LET k == CHOOSE y \in keys : TRUE
         IN Plus(SumOver(m, keys \ {k}, field), m[k][field])

\* round(n * TIC / 100): the tenths of a second in n ticks, as toFixed(1)
\* keeps them
Tenths(n) == (n * TIC + 50) \div 100

\* (+n * TIC / 1000).toFixed(1) as text
ToFixed1(n) ==
    DecimalString(Tenths(n) \div 10) \o <<".">> \o <<DigitChar(Tenths(n) % 10)>>

\* merge.duration = +(merge.duration * TIC / 1000).toFixed(1): seconds with
\* one decimal; val holds the tenths of a second
ConvertDuration(d) == IF d.nan THEN NaN ELSE Num(Tenths(d.val))

RECURSIVE FormatTimes(_)
\* merge.beat.replace(RE_TIME, (_, s, n) => s + (+n * TIC / 1000).toFixed(1))
\* RE_TIME = /(~|\/)(\d+)(?=[*\/!]|_|$)/g
FormatTimes(s) ==
    IF s = <<>> THEN <<>>
    ELSE IF /\ s[1] \in {TokT, TokA}
            /\ Len(s) >= 2
            /\ IsDigit(s[2])
            /\ LET e == DigitsEnd(s, 2)
               IN e = Len(s) \/ s[e + 1] \in {TokE, TokA, TokP, "_"}
         THEN LET e == DigitsEnd(s, 2)
              IN <<s[1]>> \o ToFixed1(DecimalValue(SubSeq(s, 2, e)))
                    \o FormatTimes(SubSeq(s, e + 1, Len(s)))
         ELSE <<s[1]>> \o FormatTimes(Tail(s))

RECURSIVE SpaceTokens(_)
\* .replace(RE_SPACE, ' $1'), RE_SPACE = /(!|~|\*)/g
SpaceTokens(s) ==
    IF s = <<>> THEN <<>>
    ELSE IF s[1] \in {TokP, TokT, TokE}
         THEN <<" ", s[1]>> \o SpaceTokens(Tail(s))
         ELSE <<s[1]>> \o SpaceTokens(Tail(s))

RECURSIVE SpaceMarkers(_)
\* .replace(/___(\d+)/g, ' ___$1')
SpaceMarkers(s) ==
    IF s = <<>> THEN <<>>
    ELSE IF MarkerAt(s, 1)
         THEN LET e == DigitsEnd(s, 4)
              IN <<" ">> \o SubSeq(s, 1, e) \o SpaceMarkers(SubSeq(s, e + 1, Len(s)))
         ELSE <<s[1]>> \o SpaceMarkers(Tail(s))

RECURSIVE TrimStart(_)
TrimStart(s) == IF s # <<>> /\ s[1] = " " THEN TrimStart(Tail(s)) ELSE s

\* late: merge.beat after RE_TIME and, with ARCHIVING.SPACE, the spacing
FormatBeat(flow) ==
    LET t == FormatTimes(flow)
    IN IF ArchivingSpace THEN TrimStart(SpaceMarkers(SpaceTokens(t))) ELSE t

Truthy(s) == s # Undefined /\ s # <<>>

\* MergeOf with the counters read from the leader fragment only
MergeOfLeaderOnly(r, m, f, flow) ==
    LET leader == m[f]
    IN [time     |-> IF ArchivingTime /\ Truthy(leader.time)
                     THEN leader.time ELSE Undefined,
        hash     |-> IF ArchivingHash /\ Truthy(leader.hash)
                     THEN leader.hash ELSE Undefined,
        device   |-> leader.device,
        referrer |-> leader.referrer,
        scrolls  |-> leader.scrolls,
        clicks   |-> leader.clicks,
        duration |-> IF r = "late" THEN ConvertDuration(leader.duration)
                     ELSE leader.duration,
        beat     |-> IF r = "late" THEN FormatBeat(flow) ELSE flow]

\* const leader = map[first]; const merge = {}; ... merge.beat = flow; ...
MergeOf(r, m, f, flow) ==
    LET leader == m[f]
        total  == [x \in {"scrolls", "clicks", "duration"} |->
                      SumOver(m, DOMAIN m, x)]
    IN [time     |-> IF ArchivingTime /\ Truthy(leader.time)
                     THEN leader.time ELSE Undefined,
        hash     |-> IF ArchivingHash /\ Truthy(leader.hash)
                     THEN leader.hash ELSE Undefined,
        device   |-> leader.device,
        referrer |-> leader.referrer,
        scrolls  |-> total["scrolls"],
        clicks   |-> total["clicks"],
        duration |-> IF r = "late" THEN ConvertDuration(total["duration"])
                     ELSE total["duration"],
        beat     |-> IF r = "late" THEN FormatBeat(flow) ELSE flow]

(***************************************************************************)
(* Live streaming handler: scan and the score field updates                *)
(***************************************************************************)

\* STREAMING.BOT (true in both revisions)
StreamingBot(r) == TRUE

\* STREAMING.HUMAN (early: false, late: true)
StreamingHuman(r) == r = "late"

RECURSIVE IndexFrom(_, _, _)
IndexFrom(s, p, i) ==
    IF i + Len(p) - 1 > Len(s) THEN 0 - 1
    ELSE IF SubSeq(s, i, i + Len(p) - 1) = p THEN i - 1
    ELSE IndexFrom(s, p, i + 1)

\* s.indexOf(p): position counted from 0, -1 when p does not occur
IndexOf(s, p) == IndexFrom(s, p, 1)

\* the position a slice argument names in a string of length n
Clamp(a, n) == IF a < 0 THEN (IF n + a < 0 THEN 0 ELSE n + a)
               ELSE IF a > n THEN n ELSE a

\* s.slice(a, b)
Slice(s, a, b) == SubSeq(s, Clamp(a, Len(s)) + 1, Clamp(b, Len(s)))

\* const raw = ..., sep = raw.indexOf('___');
\* const score = raw.slice(0, sep).split('_').concat(raw.slice(sep));
ScanScore(raw) ==
    LET sep == IndexOf(raw, Underscores)
    IN Split(Slice(raw, 0, sep), "_") \o <<Slice(raw, sep, Len(raw))>>

\* What the rhythm loop of scan can leave in {bot, human}:
\*   if ((bot = botPattern(data)) || (human = humanPattern(data))) break;
\* botPattern returns null or a label (a non-empty string), humanPattern
\* returns null or 1, and humanPattern is called only when botPattern
\* returned null.  human = 0 stands for null (both are falsy).
Detections ==
    { [bot |-> Null, human |-> 0],
      [bot |-> <<"MachineGun:10">>, human |-> 0],
      [bot |-> Null, human |-> 1] }

BotHit(r, q) == StreamingBot(r) /\ q.bot # Null

HumanHit(r, q) == StreamingHuman(r) /\ q.human # 0

\* the replacement with the saturation dropped (m => +m + 1)
SecurityReplaceOverflow(field) ==
    IF field = <<>> THEN field
    ELSE LET m == ToNumber(<<field[1]>>)
         IN (IF ~m.nan THEN DecimalString(m.val + 1) ELSE <<"2">>) \o Tail(field)

\* match.score[0].replace(/^./, m => m < 2 ? +m + 1 : 2)
SecurityReplace(field) ==
    IF field = <<>> THEN field
    ELSE LET m == ToNumber(<<field[1]>>)
         IN (IF ~m.nan /\ m.val < 2 THEN DecimalString(m.val + 1) ELSE <<"2">>)
                \o Tail(field)

\* the update without the test for '0' (field[match.human] = '1' always)
PersonalizationUpdateAlways(field, human) ==
    IF human + 1 <= Len(field)
    THEN [field EXCEPT ![human + 1] = "1"]
    ELSE field

\* const field = match.score[0].split('');
\* if (field[match.human] === '0') { field[match.human] = '1';
\*     match.score[0] = field.join(''); }
PersonalizationUpdate(field, human) ==
    IF human + 1 <= Len(field) /\ field[human + 1] = "0"
    THEN [field EXCEPT ![human + 1] = "1"]
    ELSE field

\* string concatenation of an array element: undefined prints as text
ToText(x) ==
    IF x = Undefined THEN <<"u", "n", "d", "e", "f", "i", "n", "e", "d">> ELSE x

\* match.score[0] + '_' + match.score[1] + '_' + match.score[2] + match.score[3]
SetCookieValue(sc) ==
    ToText(At(sc, 0)) \o <<"_">> \o ToText(At(sc, 1)) \o <<"_">>
        \o ToText(At(sc, 2)) \o ToText(At(sc, 3))

(***************************************************************************)
(* Batch payloads explored                                                 *)
(***************************************************************************)

\* most rhythm_<n>= blocks in one batch payload
MaxFrags == 2

\* echoFlag_[time]_[hash]_device_referrer_scrolls_clicks_duration_<BEAT>,
\* ARCHIVING.TIME/HASH off on the client: both fields empty
Record(device, referrer, scrolls, clicks, duration, beat) ==
    Join(<< <<"0">>, <<>>, <<>>, device, referrer, scrolls, clicks, duration, beat >>,
         "_")

\* !h~50*b___2 : ends in a switch to tab 2
BeatSwitch2 == <<"!", "h", "~", "5", "0", "*", "b", "_", "_", "_", "2">>

\* !p~30*i : no switch
BeatPlain == <<"!", "p", "~", "3", "0", "*", "i">>

\* !a___2!a___2 : two identical texts, two identical switches to tab 2
BeatTwice2 == <<"!", "a", "_", "_", "_", "2", "!", "a", "_", "_", "_", "2">>

\* !c___1~7 : a switch to tab 1, then more tokens
BeatBack1 == <<"!", "c", "_", "_", "_", "1", "~", "7">>

\* !a~7___3 : a switch to tab 3, which no batch holds
BeatAbsent3 == <<"!", "a", "~", "7", "_", "_", "_", "3">>

\* *b~x : no leading page symbol, non-numeric gap
BeatMalformed == <<"*", "b", "~", "x">>

Records ==
    { Record(<<"1">>, <<"5">>, <<"5">>, <<"2">>, <<"1", "0", "0">>, BeatSwitch2),
      Record(<<"0">>, <<"3">>, <<"3">>, <<"1">>, <<"5", "0">>, BeatPlain),
      Record(<<"0">>, <<"3">>, <<"3">>, <<"1">>, <<"5", "0">>, BeatTwice2),
      Record(<<"1">>, <<"5">>, <<"5">>, <<"2">>, <<"1", "0", "0">>, BeatBack1),
      Record(<<"2">>, <<"0">>, <<>>, <<"1">>, <<"5", "0">>, BeatAbsent3),
      Record(<<"0">>, <<"3">>, <<"3">>, <<"1">>, <<"5", "0">>, BeatMalformed),
      \* too few fields: no duration, no beat
      Join(<< <<"0">>, <<>>, <<>>, <<"1">>, <<"5">>, <<"5">>, <<"2">> >>, "_") }

\* the \d+ of rhythm_\d+=
TabNumbers == { <<"1">>, <<"2">>, <<"0", "1">> }

Blocks == [number : TabNumbers, record : Records]

RECURSIVE SeqsUpTo(_, _)
\* the sequences over S of length at most n
SeqsUpTo(S, n) ==
    IF n = 0 THEN { <<>> }
    ELSE LET shorter == SeqsUpTo(S, n - 1)
         IN shorter \cup { Append(q, x) : q \in shorter, x \in S }

Batches == SeqsUpTo(Blocks, MaxFrags)

(***************************************************************************)
(* Batch archiving handler: the state machine                              *)
(***************************************************************************)

\* no merged record yet
NoMerge == [none |-> TRUE]

NoLoop == [current |-> Undefined, index |-> EmptyMap, flow |-> <<>>,
           taken |-> <<>>, running |-> FALSE]

NoRequest == [method |-> "none", bot |-> Null, human |-> 0]

IdleLive ==
    /\ lpc = "off"
    /\ cookie = <<>>
    /\ req = NoRequest
    /\ score = <<>>
    /\ save = <<>>
    /\ setCookie = Undefined
    /\ rhythm = <<>>
    /\ cursor = 0
    /\ data = Undefined
    /\ calls = <<>>
    /\ inflight = {}

Init ==
    /\ rev \in {"early", "late"}
    /\ pc = "recv"
    /\ body \in Batches
    /\ map = EmptyMap
    /\ first = Undefined
    /\ loop = NoLoop
    /\ merge = NoMerge
    /\ response = "none"
    /\ fullscore \in (IF ArchivingAI(rev) THEN BOOLEAN ELSE {FALSE})
    /\ ai = "none"
    /\ IdleLive

\* const match = body.match(/rhythm_\d+=.*?(?=rhythm_|$)/g);
\* for (...) map[number] = {...}; const first = ...; let current = first;
\* A payload without a block makes match null, and match.length throws.
ParseBody ==
    /\ pc = "recv"
    /\ IF body = <<>>
       THEN /\ pc' = "done"
            /\ response' = "TypeError"
            /\ UNCHANGED <<map, first, loop>>
       ELSE LET m == ParseBlocks(body, EmptyMap)
                f == First(rev, m)
            IN /\ map' = m
               /\ first' = f
               /\ loop' = LoopInit(m, f)
               /\ pc' = "loop"
               /\ UNCHANGED response
    /\ UNCHANGED <<rev, body, merge>>
    /\ UNCHANGED <<fullscore, ai>>
    /\ UNCHANGED liveVars

\* one evaluation of the while condition and, when it holds, of the body
ReassembleStep ==
    /\ pc = "loop"
    /\ loop' = LoopStep(map, loop)
    /\ pc' = IF loop'.running THEN "loop" ELSE "merge"
    /\ UNCHANGED <<rev, body, map, first, merge, response>>
    /\ UNCHANGED <<fullscore, ai>>
    /\ UNCHANGED liveVars

\* const leader = map[first]; ... body = JSON.stringify(merge);
\* leader.time throws when map[first] is undefined.
MergeRecord ==
    /\ pc = "merge"
    /\ IF first \in DOMAIN map
       THEN /\ merge' = MergeOf(rev, map, first, loop.flow)
            /\ pc' = "respond"
            /\ UNCHANGED response
       ELSE /\ pc' = "done"
            /\ response' = "TypeError"
            /\ UNCHANGED merge
    /\ UNCHANGED <<rev, body, map, first, loop>>
    /\ UNCHANGED <<fullscore, ai>>
    /\ UNCHANGED liveVars

\* if (ARCHIVING.AI && env.fullscore && merge.clicks >= ARCHIVING.BOUNCE)
\* (the early revision has no test of merge.clicks)
Insights(r, binding, m) ==
    /\ ArchivingAI(r)
    /\ binding
    /\ r = "late" => (~m.clicks.nan /\ m.clicks.val >= ArchivingBounce)

\* body = JSON.stringify(merge);
\* if (...) { ctx.waitUntil(env.fullscore.run(...).then(r => console.log(...))); }
\* else { console.log(body); }
\* The call is started and handed to ctx.waitUntil; nothing awaits it.
Dispatch ==
    /\ pc = "respond"
    /\ ai = "none"
    /\ ai' = IF Insights(rev, fullscore, merge) THEN "pending" ELSE "skipped"
    /\ UNCHANGED <<rev, pc, body, map, first, loop, merge, response, fullscore>>
    /\ UNCHANGED liveVars

\* the promise of env.fullscore.run is fulfilled: .then logs the insight
AiSucceed ==
    /\ ai = "pending"
    /\ ai' = "succeeded"
    /\ UNCHANGED <<rev, pc, body, map, first, loop, merge, response, fullscore>>
    /\ UNCHANGED liveVars

\* the promise of env.fullscore.run is rejected: nothing is logged
AiFail ==
    /\ ai = "pending"
    /\ ai' = "failed"
    /\ UNCHANGED <<rev, pc, body, map, first, loop, merge, response, fullscore>>
    /\ UNCHANGED liveVars

\* a handler that awaits the summarization call before it answers
RespondAwait ==
    /\ pc = "respond"
    /\ ai \in {"skipped", "succeeded", "failed"}
    /\ response' = "OK"
    /\ pc' = "done"
    /\ UNCHANGED <<rev, body, map, first, loop, merge>>
    /\ UNCHANGED <<fullscore, ai>>
    /\ UNCHANGED liveVars

\* return new Response('OK');
Respond ==
    /\ pc = "respond"
    /\ ai # "none"
    /\ response' = "OK"
    /\ pc' = "done"
    /\ UNCHANGED <<rev, body, map, first, loop, merge>>
    /\ UNCHANGED <<fullscore, ai>>
    /\ UNCHANGED liveVars

Next ==
    \/ ParseBody
    \/ ReassembleStep
    \/ MergeRecord
    \/ Dispatch
    \/ AiSucceed
    \/ AiFail
    \/ Respond

Spec == Init /\ [][Next]_vars

(***************************************************************************)
(* Properties of the batch archiving handler                               *)
(***************************************************************************)

AfterLoop == pc \in {"merge", "respond", "done"} /\ DOMAIN map # {}

Answered == pc = "done" /\ DOMAIN map # {}

RECURSIVE TokenCount(_, _)
\* the sum of the token counts of the fragments keys of m
TokenCount(m, keys) ==
    IF keys = {} THEN 0
    ELSE LET k == CHOOSE y \in keys : TRUE
         IN Len(m[k].beat) + TokenCount(m, keys \ {k})

\* the token that entry e = <<tab, i>> of the history names
TokenOf(e) == map[e[1]].beat[e[2] + 1]

\* a chunk of the form ___<digits>
IsMarker(token) ==
    /\ Len(token) > 3
    /\ StartsWith(token, Underscores)
    /\ AllDigits(SliceFrom(token, 3))

Target(token) == SliceFrom(token, 3)

LastTaken(st) == st.taken[Len(st.taken)]

\* the tokens of tab k appended so far
TakenOf(st, k) == {j \in 1..Len(st.taken) : st.taken[j][1] = k}

\* the flow is the concatenation of the tokens the history names
FlowIsHistory ==
    loop.flow = Concat([j \in 1..Len(loop.taken) |-> TokenOf(loop.taken[j])])

\* C1: the reassembly loop appends at most N tokens, N the sum of the token
\* counts of all fragments of the batch, every iteration that does not leave
\* the loop appends one token (so the loop ends within N iterations, also on
\* switch cycles and self-switches), and when the anchor fragment has a
\* token the flow is not empty once the loop has ended.
C1_LoopBounded ==
    /\ [](/\ Len(loop.taken) <= TokenCount(map, DOMAIN map)
          /\ (AfterLoop /\ first \in DOMAIN map /\ Len(map[first].beat) >= 1
                => loop.flow # <<>>))
    /\ [][pc = "loop" /\ pc' = "loop"
            => Len(loop'.taken) = Len(loop.taken) + 1]_vars

\* a switch cycle tab A -> tab B -> tab A was followed to the end
C1_Witness ==
    /\ Answered /\ response = "OK"
    /\ \E i, j, k \in 1..Len(loop.taken) :
          /\ i < j /\ j < k
          /\ loop.taken[i][1] = loop.taken[k][1]
          /\ loop.taken[i][1] # loop.taken[j][1]

\* C2: every token (tab, index) is appended to the flow at most once, the
\* flow holds exactly the appended tokens, and a loop iteration moves no
\* cursor but that of the tab it reads, by exactly one per appended token.
C2_ConsumedOnce ==
    /\ [](/\ \A i, j \in 1..Len(loop.taken) :
                i # j => loop.taken[i] # loop.taken[j]
          /\ FlowIsHistory)
    /\ [][pc = "loop" =>
            \A k \in DOMAIN map :
                loop'.index[k] =
                    IF Len(loop'.taken) > Len(loop.taken) /\ k = loop.current
                    THEN loop.index[k] + 1 ELSE loop.index[k]]_vars

\* a tab was entered twice and two appended tokens have the same text
C2_Witness ==
    /\ Answered
    /\ \E i, j \in 1..Len(loop.taken) :
          /\ i < j
          /\ loop.taken[i][1] = loop.taken[j][1]
          /\ TokenOf(loop.taken[i]) = TokenOf(loop.taken[j])
          /\ \E h \in (i + 1)..(j - 1) : loop.taken[h][1] # loop.taken[i][1]

\* C3: after a switch marker naming a tab T of the batch, the next token
\* appended is T's token at T's cursor, which is the number of T's tokens
\* appended so far; and when the anchor's only marker is its last token,
\* names another tab T of the batch, and T has no marker, the flow is the
\* anchor's tokens followed by T's tokens.
C3_SwitchContinues ==
    /\ [][(/\ pc = "loop"
           /\ loop.taken # <<>>
           /\ Len(loop'.taken) > Len(loop.taken)
           /\ IsMarker(TokenOf(LastTaken(loop)))
           /\ Target(TokenOf(LastTaken(loop))) \in DOMAIN map)
            => LET T == Target(TokenOf(LastTaken(loop)))
               IN /\ LastTaken(loop') = <<T, loop.index[T]>>
                  /\ loop.index[T] = Cardinality(TakenOf(loop, T))]_vars
    /\ [](Answered /\ response = "OK" /\ first \in DOMAIN map
            => LET a == map[first].beat
               IN (/\ a # <<>>
                   /\ IsMarker(a[Len(a)])
                   /\ \A i \in 1..(Len(a) - 1) : ~StartsWith(a[i], Underscores)
                   /\ Target(a[Len(a)]) \in DOMAIN map \ {first}
                   /\ \A i \in 1..Len(map[Target(a[Len(a)])].beat) :
                         ~StartsWith(map[Target(a[Len(a)])].beat[i], Underscores))
                  => loop.flow = Concat(a) \o Concat(map[Target(a[Len(a)])].beat))

\* a tab is re-entered through a marker and read on from a cursor past 0
C3_Witness ==
    /\ Answered
    /\ \E j \in 2..Len(loop.taken) :
          /\ IsMarker(TokenOf(loop.taken[j - 1]))
          /\ loop.taken[j][1] = Target(TokenOf(loop.taken[j - 1]))
          /\ loop.taken[j][1] # loop.taken[j - 1][1]
          /\ loop.taken[j][2] > 0

\* the last appended token is a switch marker naming a tab not in the batch
StoppedAtAbsent(st) ==
    /\ st.taken # <<>>
    /\ IsMarker(TokenOf(LastTaken(st)))
    /\ Target(TokenOf(LastTaken(st))) \notin DOMAIN map

\* C4: when the appended switch marker names a tab that is not in the batch,
\* the loop ends there without an error, the flow ends with that marker, and
\* the handler produces the merged record (its beat ending with the marker)
\* and answers OK.
C4_AbsentTargetStops ==
    /\ [][pc = "loop" /\ StoppedAtAbsent(loop)
            => pc' = "merge" /\ loop'.flow = loop.flow]_vars
    /\ [](DOMAIN map # {} /\ StoppedAtAbsent(loop)
            => /\ EndsWith(loop.flow, TokenOf(LastTaken(loop)))
               /\ response # "TypeError"
               /\ (pc = "done"
                    => /\ response = "OK"
                       /\ merge # NoMerge
                       /\ EndsWith(merge.beat, TokenOf(LastTaken(loop)))))

\* the handler answered a batch whose traversal ended at an absent target
C4_Witness ==
    /\ Answered /\ response = "OK"
    /\ StoppedAtAbsent(loop)
    /\ Len(loop.taken) < TokenCount(map, DOMAIN map)

Counters == {"scrolls", "clicks", "duration"}

\* the fragments the traversal read a token from, and the anchor
Visited == {k \in DOMAIN map : k = first \/ TakenOf(loop, k) # {}}

RECURSIVE ValSum(_, _)
\* the sum of the values of counter x over the fragments keys, a counter
\* that is not a number counted as 0
ValSum(keys, x) ==
    IF keys = {} THEN 0
    ELSE LET k == CHOOSE y \in keys : TRUE
         IN (IF map[k][x].nan THEN 0 ELSE map[k][x].val) + ValSum(keys \ {k}, x)

\* the sum of counter x over the fragments keys, as a JavaScript number
Total(keys, x) ==
    IF \E k \in keys : map[k][x].nan THEN NaN ELSE Num(ValSum(keys, x))

\* the total as the merged record reports it
Reported(r, x, total) ==
    IF r = "late" /\ x = "duration" /\ ~total.nan
    THEN Num((total.val * TIC + 50) \div 100) ELSE total

Without(k) == [j \in DOMAIN map \ {k} |-> map[j]]

\* C5: the merged scrolls, clicks and duration are the sums of the counters
\* of all fragments of the batch, visited by the traversal or not (duration
\* summed in ticks, then converted); and for a fragment the traversal never
\* reaches, the batch without it gives the same flow and merged beat, and
\* totals smaller by exactly that fragment's counters.
C5_TotalsOverAllFragments ==
    merge # NoMerge =>
        /\ \A x \in Counters :
              merge[x] = Reported(rev, x,
                            Plus(Total(Visited, x), Total(DOMAIN map \ Visited, x)))
        /\ \A k \in DOMAIN map \ Visited :
              LET m2  == Without(k)
                  f2  == First(rev, m2)
                  run == LoopRun(m2, LoopInit(m2, f2))
                  mg  == MergeOf(rev, m2, f2, run.flow)
              IN /\ f2 = first
                 /\ run.flow = loop.flow
                 /\ mg.beat = merge.beat
                 /\ merge.scrolls = Plus(mg.scrolls, map[k].scrolls)
                 /\ merge.clicks = Plus(mg.clicks, map[k].clicks)

\* the handler answered a batch with a fragment the traversal never reached,
\* whose counters are numbers above 0
C5_Witness ==
    /\ Answered /\ response = "OK"
    /\ \E k \in DOMAIN map \ Visited :
          /\ \A x \in Counters : ~map[k][x].nan /\ map[k][x].val > 0
          /\ \A x \in Counters : ~merge[x].nan

\* C6 (as claimed): for a batch with at least one fragment the anchor is a
\* fragment of the batch (late: one of lowest numeric tab number), the
\* handler answers OK and the merged device and referrer are the anchor's.
C6_AnchorInBatch ==
    (pc \in {"loop", "merge", "respond", "done"} /\ DOMAIN map # {})
        => /\ first \in DOMAIN map
           /\ (rev = "late" =>
                 \A k \in DOMAIN map : DecimalValue(first) <= DecimalValue(k))
           /\ (merge # NoMerge =>
                 /\ merge.device = map[first].device
                 /\ merge.referrer = map[first].referrer)
           /\ (pc = "done" => response = "OK")

\* C7 (as claimed): a counter that is missing or empty counts as zero: the
\* merged totals are numbers, the sums of the counters that are present.
C7_MissingCountersAreZero ==
    merge # NoMerge =>
        \A x \in Counters :
            /\ ~merge[x].nan
            /\ merge[x] = Reported(rev, x, Num(ValSum(DOMAIN map, x)))

\* a beat that does not begin with the page symbol, or has a gap symbol that
\* no digit follows
Malformed(beat) ==
    /\ beat # <<>>
    /\ \/ beat[1] # TokP
       \/ \E i \in 1..Len(beat) :
             /\ beat[i] \in {TokT, TokA}
             /\ (i = Len(beat) \/ ~IsDigit(beat[i + 1]))

\* C8 (as claimed): a fragment with a malformed beat is rejected with an
\* error: none of its tokens is appended to the flow and the handler does
\* not answer OK.
C8_MalformedRejected ==
    \A k \in DOMAIN map :
        Malformed(Concat(map[k].beat))
            => /\ TakenOf(loop, k) = {}
               /\ response # "OK"

(***************************************************************************)
(* Live streaming handler: the state machine                               *)
(***************************************************************************)

\* personalization flag positions of the score field explored
FlagCount == 2

RECURSIVE Words(_, _)
\* the strings of length n over the characters S
Words(S, n) ==
    IF n = 0 THEN { <<>> }
    ELSE { <<c>> \o w : c \in S, w \in Words(S, n - 1) }

\* <securityDigit><flagDigits>
ScoreFields ==
    { <<d>> \o w : d \in {"0", "1", "2", "3"}, w \in Words({"0", "1", "2"}, FlagCount) }

\* _<time>_<hash>___<tabCount>
ScoreTails ==
    { <<"_", "_", "_", "_", "_", "1">>,
      <<"_", "1", "7", "_", "_", "_", "_", "1">>,
      <<"_", "_", "x", "7", "_", "_", "_", "1">>,
      <<"_", "1", "7", "_", "x", "7", "_", "_", "_", "2">> }

\* the value of the score cookie the client holds
ScoreCookies == { f \o t : f \in ScoreFields, t \in ScoreTails }

IdleEcho ==
    /\ pc = "off"
    /\ body = <<>>
    /\ map = EmptyMap
    /\ first = Undefined
    /\ loop = NoLoop
    /\ merge = NoMerge
    /\ response = "none"
    /\ fullscore = FALSE
    /\ ai = "none"

InitLive ==
    /\ rev \in {"early", "late"}
    /\ lpc = "idle"
    /\ cookie \in ScoreCookies
    /\ req = NoRequest
    /\ score = <<>>
    /\ save = <<>>
    /\ setCookie = Undefined
    /\ rhythm = <<>>
    /\ cursor = 0
    /\ data = Undefined
    /\ calls = <<>>
    /\ inflight = {}
    /\ IdleEcho

\* const match = scan(cookies);
\* if (!((STREAMING.BOT && match.bot) || (STREAMING.HUMAN && match.human)))
\*     return request.method === 'HEAD' ? new Response(null, {status: 204})
\*                                      : fetch(request);
\* const save = match.score[0];
LiveScan ==
    /\ lpc = "idle"
    /\ \E method \in {"HEAD", "GET"}, d \in Detections :
          LET q == [method |-> method, bot |-> d.bot, human |-> d.human]
          IN /\ req' = q
             /\ score' = ScanScore(cookie)
             /\ save' = ScanScore(cookie)[1]
             /\ setCookie' = Undefined
             /\ lpc' = IF BotHit(rev, q) \/ HumanHit(rev, q)
                       THEN "security" ELSE "idle"
    /\ UNCHANGED <<rev, cookie>>
    /\ UNCHANGED <<scanVars, inflight>>
    /\ UNCHANGED echoVars

\* if (STREAMING.BOT && match.bot) match.score[0] = match.score[0].replace(...)
LiveSecurity ==
    /\ lpc = "security"
    /\ score' = IF BotHit(rev, req)
                THEN [score EXCEPT ![1] = SecurityReplace(score[1])]
                ELSE score
    /\ lpc' = "personal"
    /\ UNCHANGED <<rev, cookie, req, save, setCookie>>
    /\ UNCHANGED <<scanVars, inflight>>
    /\ UNCHANGED echoVars

\* if (STREAMING.HUMAN && match.human) { ... }
LivePersonalization ==
    /\ lpc = "personal"
    /\ score' = IF HumanHit(rev, req)
                THEN [score EXCEPT ![1] = PersonalizationUpdate(score[1], req.human)]
                ELSE score
    /\ lpc' = "respond"
    /\ UNCHANGED <<rev, cookie, req, save, setCookie>>
    /\ UNCHANGED <<scanVars, inflight>>
    /\ UNCHANGED echoVars

\* the response that carries the score whatever the request method is
LiveRespondAnyMethod ==
    /\ lpc = "respond"
    /\ IF score[1] # save
       THEN /\ setCookie' = SetCookieValue(score)
            /\ cookie' = SetCookieValue(score)
       ELSE /\ setCookie' = Undefined
            /\ UNCHANGED cookie
    /\ lpc' = "idle"
    /\ UNCHANGED <<rev, req, score, save>>
    /\ UNCHANGED <<scanVars, inflight>>
    /\ UNCHANGED echoVars

\* if (request.method === 'HEAD' && match.score[0] !== save)
\*     return new Response(null, {status: 204, headers: {'Set-Cookie': ...}});
\* if (request.method === 'HEAD') return new Response(null, {status: 204});
\* (any other method falls through to fetch(request)).  The client stores
\* the value a Set-Cookie header carries.
LiveRespond ==
    /\ lpc = "respond"
    /\ IF req.method = "HEAD" /\ score[1] # save
       THEN /\ setCookie' = SetCookieValue(score)
            /\ cookie' = SetCookieValue(score)
       ELSE /\ setCookie' = Undefined
            /\ UNCHANGED cookie
    /\ lpc' = "idle"
    /\ UNCHANGED <<rev, req, score, save>>
    /\ UNCHANGED <<scanVars, inflight>>
    /\ UNCHANGED echoVars

NextLive ==
    \/ LiveScan
    \/ LiveSecurity
    \/ LivePersonalization
    \/ LiveRespond

SpecLive == InitLive /\ [][NextLive]_vars

(***************************************************************************)
(* Properties of the live streaming handler                                *)
(***************************************************************************)

Levels == {"0", "1", "2"}

\* the digit field of a score cookie value: the text before the first '_'
FieldOf(raw) == Split(raw, "_")[1]

MinOf(a, b) == IF a < b THEN a ELSE b

\* C9: on a bot hit the security digit d in 0..2 becomes min(d + 1, 2), and
\* without a bot hit no step of the handler changes it; over any sequence
\* of requests the level held by the client, once in 0..2, stays in 0..2
\* and never decreases (a hit against level 2 leaves 2).
C9_SecuritySaturates ==
    /\ [][(lpc = "security" /\ score[1] # <<>> /\ score[1][1] \in Levels)
            => /\ score'[1] # <<>>
               /\ score'[1][1] =
                    IF BotHit(rev, req)
                    THEN DigitChar(MinOf(DigitVal(score[1][1]) + 1, 2))
                    ELSE score[1][1]]_vars
    /\ [][(lpc \in {"personal", "respond"} /\ score[1] # <<>>)
            => score'[1] # <<>> /\ score'[1][1] = score[1][1]]_vars
    /\ [][cookie[1] \in Levels
            => /\ cookie'[1] \in Levels
               /\ DigitVal(cookie'[1]) >= DigitVal(cookie[1])
               /\ (cookie'[1] # cookie[1] =>
                     /\ BotHit(rev, req)
                     /\ DigitVal(cookie'[1]) = DigitVal(cookie[1]) + 1)]_vars

\* a bot hit against level 2 was processed and left level 2
C9_Witness ==
    /\ lpc = "personal"
    /\ BotHit(rev, req)
    /\ save[1] = "2"
    /\ score[1][1] = "2"

\* C10: on a human hit with flag index i the flag at position i changes
\* only from '0' to '1' and no other position of the field changes; no
\* response ever changes a flag the client holds except from '0' to '1'.
C10_FlagsOnlyRise ==
    /\ [][(lpc = "personal" /\ HumanHit(rev, req))
            => /\ Len(score'[1]) = Len(score[1])
               /\ \A p \in 1..Len(score[1]) :
                     score'[1][p] =
                        IF p = req.human + 1 /\ score[1][p] = "0"
                        THEN "1" ELSE score[1][p]]_vars
    /\ [][LET old == FieldOf(cookie)
              new == FieldOf(cookie')
          IN /\ Len(new) = Len(old)
             /\ \A p \in 2..Len(old) :
                   new[p] # old[p] => old[p] = "0" /\ new[p] = "1"]_vars

\* a human hit raised its flag from '0' to '1' while another flag holding
\* '2' kept its value
C10_Witness ==
    /\ lpc = "respond"
    /\ HumanHit(rev, req)
    /\ save[req.human + 1] = "0"
    /\ score[1][req.human + 1] = "1"
    /\ \E p \in 2..Len(save) : save[p] = "2" /\ score[1][p] = "2"

\* a score value of the layout <digits>_<time>_<hash>___<tabCount>, time and
\* hash free of '_' and possibly empty
WellFormedScore(raw) ==
    LET p == Split(raw, "_")
    IN /\ Len(p) = 6
       /\ p[1] # <<>> /\ AllDigits(p[1])
       /\ p[4] = <<>> /\ p[5] = <<>>
       /\ p[6] # <<>> /\ AllDigits(p[6])

\* C11 (as claimed): for a received score value of that layout the value
\* sent in Set-Cookie has the same layout and field width, the same time,
\* hash and tab count, and differs in at most one digit of the field.
C11_LayoutKept ==
    [][(lpc = "respond" /\ setCookie' # Undefined /\ WellFormedScore(cookie))
        => LET old == Split(cookie, "_")
               new == Split(setCookie', "_")
           IN /\ WellFormedScore(setCookie')
              /\ SubSeq(new, 2, 6) = SubSeq(old, 2, 6)
              /\ Len(new[1]) = Len(old[1])
              /\ Cardinality({i \in 1..Len(old[1]) : new[1][i] # old[1][i]}) <= 1]_vars

(***************************************************************************)
(* botPattern and humanPattern                                             *)
(***************************************************************************)

\* the repeat-gap symbol of a beat: '.' in the early revision, TOK.A later
RepeatSym(r) == IF r = "early" THEN "." ELSE TokA

\* a detector label: the name with its colon, then the text of the value
Label(name, text) == <<name>> \o text

\* the least position of a non-empty set of positions
FirstOf(positions) == CHOOSE x \in positions : \A y \in positions : x <= y

RECURSIVE MatchNumbered(_, _, _)
\* data.beat.match(/<sym>(\d+)/g) from position i on: the digits of every
\* match, in order (no match: the empty list, which fails every length test
\* as null does)
MatchNumbered(s, sym, i) ==
    LET starts == {j \in i..(Len(s) - 1) : s[j] = sym /\ IsDigit(s[j + 1])}
    IN IF starts = {} THEN <<>>
       ELSE LET j == FirstOf(starts)
                e == DigitsEnd(s, j + 1)
            IN <<SubSeq(s, j + 1, e)>> \o MatchNumbered(s, sym, e + 1)

\* beat.match(/~(\d+)/g).map(t => +t.slice(1))
TimeValues(beat) ==
    LET m == MatchNumbered(beat, TokT, 1)
    IN [i \in 1..Len(m) |-> DecimalValue(m[i])]

RECURSIVE MachineGunNoReset(_, _, _)
\* the run counter that is never set back to 0
MachineGunNoReset(values, i, count) ==
    IF i > Len(values) THEN Null
    ELSE LET c == IF values[i] * TIC <= 200 THEN count + 1 ELSE count
         IN IF c >= 10 THEN Label("MachineGun:", DecimalString(c))
            ELSE MachineGunNoReset(values, i + 1, c)

RECURSIVE MachineGunFrom(_, _, _)
\* for (let i = 0, count = 0; i < machinegun.length; i++)
\*   if ((count = +machinegun[i].slice(1) <= 200/TIC ? count + 1 : 0) >= 10)
\*     return `MachineGun:${count}`;
MachineGunFrom(values, i, count) ==
    IF i > Len(values) THEN Null
    ELSE LET c == IF values[i] * TIC <= 200 THEN count + 1 ELSE 0
         IN IF c >= 10 THEN Label("MachineGun:", DecimalString(c))
            ELSE MachineGunFrom(values, i + 1, c)

\* MachineGun: 200ms or less, 10+ consecutive
MachineGun(beat) ==
    LET values == TimeValues(beat)
    IN IF Len(values) >= 10 THEN MachineGunFrom(values, 1, 0) ELSE Null

RECURSIVE Repeats(_, _, _, _)
\* how many times ([<seps>]\1) matches in a row from position p, \1 = g
Repeats(s, p, seps, g) ==
    IF p + Len(g) <= Len(s) /\ s[p] \in seps /\ SubSeq(s, p + 1, p + Len(g)) = g
    THEN 1 + Repeats(s, p + 1 + Len(g), seps, g)
    ELSE 0

\* the first group of the leftmost match of /[<seps>](\d+)([<seps>]\1){7,}/
\* at or after position i; (\d+) is followed by a separator, so it is the
\* whole run of digits
MetronomeFrom(s, seps, i) ==
    LET starts == {j \in i..(Len(s) - 1) :
                      /\ s[j] \in seps
                      /\ IsDigit(s[j + 1])
                      /\ LET e == DigitsEnd(s, j + 1)
                         IN Repeats(s, e + 1, seps, SubSeq(s, j + 1, e)) >= 7}
    IN IF starts = {} THEN Null
       ELSE LET j == FirstOf(starts)
            IN SubSeq(s, j + 1, DigitsEnd(s, j + 1))

\* Metronome: same interval 8+ times
Metronome(r, beat) ==
    LET g == MetronomeFrom(beat, {RepeatSym(r), TokT}, 1)
    IN IF g = Null THEN Null ELSE Label("Metronome:", g)

RECURSIVE SumSeq(_)
SumSeq(v) == IF v = <<>> THEN 0 ELSE Head(v) + SumSeq(Tail(v))

\* n * n * variance of the values (an integer): n * sum(x^2) - sum(x)^2
ScaledVariance(v) ==
    Len(v) * SumSeq([i \in 1..Len(v) |-> v[i] * v[i]]) - SumSeq(v) * SumSeq(v)

\* spread.toFixed(1) in tenths, spread = sqrt(ScaledVariance / n^2) < 2
SpreadTenths(v) ==
    CHOOSE t \in 0..20 :
        /\ (2 * t - 1) * (2 * t - 1) * Len(v) * Len(v) <= 400 * ScaledVariance(v) \/ t = 0
        /\ 400 * ScaledVariance(v) < (2 * t + 1) * (2 * t + 1) * Len(v) * Len(v)

\* NoVariance: standard deviation < 2, need 4+ data points
\*   spread < 200/TIC && average > 1000/TIC
NoVariance(beat) ==
    LET v == TimeValues(beat)
    IN IF /\ Len(v) >= 4
          /\ ScaledVariance(v) * TIC * TIC < 200 * 200 * Len(v) * Len(v)
          /\ SumSeq(v) * TIC > 1000 * Len(v)
       THEN Label("NoVariance:", DecimalString(SpreadTenths(v) \div 10)
                     \o <<".">> \o <<DigitChar(SpreadTenths(v) % 10)>>)
       ELSE Null

\* Arithmetic: constant interval increase/decrease, 4+ points
Arithmetic(beat) ==
    LET v == TimeValues(beat)
    IN IF Len(v) >= 4
       THEN LET delta == v[2] - v[1]
            IN IF delta # 0 /\ \A i \in 2..Len(v) : v[i] - v[i - 1] = delta
               THEN Label("Arithmetic:",
                          IF delta > 0 THEN <<"+">> \o DecimalString(delta)
                          ELSE <<"-">> \o DecimalString(0 - delta))
               ELSE Null
       ELSE Null

Abs(x) == IF x < 0 THEN 0 - x ELSE x

\* Geometric: constant multiplication ratio, 4+ points
\*   ratio = values[1] / values[0]; Math.abs(x / values[i-1] - ratio) < 0.01
\* compared as fractions; ratio.toFixed(1) rounds the fraction to tenths
Geometric(beat) ==
    LET v == TimeValues(beat)
    IN IF Len(v) >= 4
       THEN IF /\ v[1] > 0 /\ v[2] > 0 /\ v[2] # v[1]
               /\ \A i \in 2..Len(v) :
                     /\ v[i - 1] > 0
                     /\ 100 * Abs(v[i] * v[1] - v[2] * v[i - 1]) < v[i - 1] * v[1]
            THEN LET tenths == (20 * v[2] + v[1]) \div (2 * v[1])
                 IN Label("Geometric:", <<"x">> \o DecimalString(tenths \div 10)
                              \o <<".">> \o <<DigitChar(tenths % 10)>>)
            ELSE Null
       ELSE Null

\* the characters a page label of the PingPong pattern cannot hold
PageStop == {TokT, TokE, TokP}

\* last position of the run of [^~*!] that starts after position i (i itself
\* when the run is empty)
LabelEnd(s, i) ==
    LET stops == {j \in (i + 1)..Len(s) : s[j] \in PageStop}
    IN IF stops = {} THEN Len(s) ELSE FirstOf(stops) - 1

RECURSIVE Cycles(_, _, _, _)
\* how many times (?:!\1!\2) matches in a row from position p
Cycles(s, p, a, b) ==
    LET q == p + 1 + Len(a)
    IN IF /\ q + Len(b) <= Len(s)
          /\ s[p] = TokP /\ SubSeq(s, p + 1, p + Len(a)) = a
          /\ s[q] = TokP /\ SubSeq(s, q + 1, q + Len(b)) = b
       THEN 1 + Cycles(s, q + 1 + Len(b), a, b)
       ELSE 0

\* position i starts a match of /!([^~*!]+)!([^~*!]+)(?:!\1!\2)+/
PingPongAt(s, i) ==
    LET ea == LabelEnd(s, i)
        eb == LabelEnd(s, ea + 1)
    IN /\ s[i] = TokP
       /\ ea > i
       /\ ea + 1 <= Len(s) /\ s[ea + 1] = TokP
       /\ eb > ea + 1
       /\ Cycles(s, eb + 1, SubSeq(s, i + 1, ea), SubSeq(s, ea + 2, eb)) >= 1

\* the leftmost match of that expression at or after position i: its two
\* groups and the number of repetitions, or Null
PingPongFrom(s, i) ==
    LET starts == {j \in i..Len(s) : PingPongAt(s, j)}
    IN IF starts = {} THEN Null
       ELSE LET j == FirstOf(starts)
                ea == LabelEnd(s, j)
                eb == LabelEnd(s, ea + 1)
                a == SubSeq(s, j + 1, ea)
                b == SubSeq(s, ea + 2, eb)
            IN <<a, b, DecimalString(Cycles(s, eb + 1, a, b))>>

\* PingPong: A-B-A-B page bounce, 3+ cycles (6 pages total)
\*   pingpong[0].split('!').filter(Boolean).length >= 6
PingPong(beat) ==
    LET m == PingPongFrom(beat, 1)
    IN IF m # Null /\ 2 + 2 * DecimalValue(m[3]) >= 6
       THEN Label("PingPong:", m[1] \o <<"-">> \o m[2])
       ELSE Null

\* Surface: DOM depth <=2 is 90%+, need 10+ clicks
\*   shallow / surface.length > 0.9
Surface(beat) ==
    LET surface == MatchNumbered(beat, TokE, 1)
        shallow == Cardinality({i \in 1..Len(surface) : DecimalValue(surface[i]) <= 2})
    IN IF Len(surface) >= 10 /\ 10 * shallow > 9 * Len(surface)
       THEN Label("Surface:", DecimalString(shallow) \o <<"/">>
                                 \o DecimalString(Len(surface)))
       ELSE Null

\* last position of the run of [^!~] that starts after position i
ClickEnd(s, i) ==
    LET stops == {j \in (i + 1)..Len(s) : s[j] \in {TokP, TokT}}
    IN IF stops = {} THEN Len(s) ELSE FirstOf(stops) - 1

RECURSIVE MatchClicks(_, _)
\* data.beat.match(/\*[^!~]+/g) from position i on
MatchClicks(s, i) ==
    LET starts == {j \in i..(Len(s) - 1) : s[j] = TokE /\ s[j + 1] \notin {TokP, TokT}}
    IN IF starts = {} THEN <<>>
       ELSE LET j == FirstOf(starts)
                e == ClickEnd(s, j)
            IN <<SubSeq(s, j, e)>> \o MatchClicks(s, e + 1)

\* Monotonous: diversity < 15%, need 20+ clicks
\*   unique / monotonous.length < 0.15
Monotonous(beat) ==
    LET monotonous == MatchClicks(beat, 1)
        unique == Cardinality({monotonous[i] : i \in 1..Len(monotonous)})
    IN IF Len(monotonous) >= 20 /\ 100 * unique < 15 * Len(monotonous)
       THEN Label("Monotonous:", DecimalString(unique) \o <<"t">>)
       ELSE Null

AreYouHuman == <<"*", "a", "r", "e", "-", "y", "o", "u", "-", "h", "u", "m", "a", "n">>

\* one gap of the example patterns: bot ~[0-4] or /[0-4], human
\* ~(?:[5-9]|\d{2,}) or /(?:[5-9]|\d{2,}); d is the whole run of digits
GapOK(kind, d) ==
    IF kind = "bot" THEN Len(d) = 1 /\ DigitVal(d[1]) <= 4
    ELSE Len(d) >= 2 \/ DigitVal(d[1]) >= 5

RECURSIVE IsGapRun(_, _, _, _)
\* positions i..p-1 of s are one or more gaps of the kind, each ~ or / and
\* its digits
IsGapRun(s, i, p, kind) ==
    /\ i + 1 < p
    /\ s[i] \in {"~", "/"}
    /\ IsDigit(s[i + 1])
    /\ LET e == DigitsEnd(s, i + 1)
       IN /\ e < p
          /\ GapOK(kind, SubSeq(s, i + 1, e))
          /\ (e + 1 = p \/ IsGapRun(s, e + 1, p, kind))

\* the first group of the leftmost match of
\*   /((?:<gap>)+)\*are-you-human[~\d.]*$/, or Null
ExampleMatch(s, kind) ==
    LET ends == {p \in 1..Len(s) :
                    /\ p + Len(AreYouHuman) - 1 <= Len(s)
                    /\ SubSeq(s, p, p + Len(AreYouHuman) - 1) = AreYouHuman
                    /\ \A j \in (p + Len(AreYouHuman))..Len(s) :
                          IsDigit(s[j]) \/ s[j] \in {"~", "."}}
        starts == {i \in 1..Len(s) : \E p \in ends : IsGapRun(s, i, p, kind)}
    IN IF starts = {} THEN Null
       ELSE LET i == CHOOSE x \in starts : \A y \in starts : x <= y
                p == CHOOSE x \in ends : IsGapRun(s, i, x, kind)
            IN SubSeq(s, i, p - 1)

\* the example detector of the later revision: 3+ rapid clicks on the
\* are-you-human button; count = (example[1].match(/[~\/]/g) || []).length
BotExample(beat) ==
    LET example == ExampleMatch(beat, "bot")
    IN IF example = Null THEN Null
       ELSE LET count == Cardinality({i \in 1..Len(example) : example[i] \in {"~", "/"}})
            IN IF count >= 3 THEN Label("BotExample:", DecimalString(count)) ELSE Null

\* the first detector in the list that returns a label
FirstLabel(labels) ==
    IF \A i \in 1..Len(labels) : labels[i] = Null THEN Null
    ELSE labels[CHOOSE i \in 1..Len(labels) :
                    labels[i] # Null /\ \A j \in 1..(i - 1) : labels[j] = Null]

\* the detectors of one revision, in the order of their if-statements
Detectors(r, beat) ==
    <<MachineGun(beat), Metronome(r, beat), NoVariance(beat), Arithmetic(beat),
      Geometric(beat), PingPong(beat), Surface(beat), Monotonous(beat)>>
        \o (IF r = "late" THEN <<BotExample(beat)>> ELSE <<>>)

\* the detectors with NoVariance and Arithmetic exchanged
BotPatternSwapped(r, beat) ==
    FirstLabel(<<MachineGun(beat), Metronome(r, beat), Arithmetic(beat),
                 NoVariance(beat), Geometric(beat), PingPong(beat),
                 Surface(beat), Monotonous(beat)>>
                   \o (IF r = "late" THEN <<BotExample(beat)>> ELSE <<>>))

\* botPattern(data): the label of the first detector that matches, or null
BotPattern(r, beat) == FirstLabel(Detectors(r, beat))

RECURSIVE MatchDigits(_, _)
\* s.match(/\d+/g) from position i on
MatchDigits(s, i) ==
    LET starts == {j \in i..Len(s) : IsDigit(s[j])}
    IN IF starts = {} THEN <<>>
       ELSE LET j == FirstOf(starts)
                e == DigitsEnd(s, j)
            IN <<SubSeq(s, j, e)>> \o MatchDigits(s, e + 1)

Buy == <<"*", "b", "u", "y">>

\* /~[^*]*\.[^*]*\.[^*]*\*buy/.test(data.beat)
BuyPattern(s) ==
    \E i \in 1..Len(s) : \E p \in (i + 1)..Len(s) :
        /\ s[i] = "~"
        /\ p + Len(Buy) - 1 <= Len(s) /\ SubSeq(s, p, p + Len(Buy) - 1) = Buy
        /\ \A j \in (i + 1)..(p - 1) : s[j] # "*"
        /\ Cardinality({j \in (i + 1)..(p - 1) : s[j] = "."}) >= 2

\* the example of the later revision: 3+ slow clicks on the are-you-human
\* button; times.length >= 3 && sum < 100
SlowClicks(s) ==
    LET example == ExampleMatch(s, "human")
    IN /\ example # Null
       /\ LET times == MatchDigits(example, 1)
          IN /\ Len(times) >= 3
             /\ SumSeq([i \in 1..Len(times) |-> DecimalValue(times[i])]) < 100

\* a humanPattern whose second branch is live
HumanPatternSecond(r, beat) ==
    IF (IF r = "early" THEN BuyPattern(beat) ELSE SlowClicks(beat)) THEN 1
    ELSE IF Len(beat) > 2 THEN 2
    ELSE 0

\* humanPattern(data): 1 when the example pattern matches; the branches
\* for positions 2..9 are 'if (false)'; 0 stands for null
HumanPattern(r, beat) ==
    IF (IF r = "early" THEN BuyPattern(beat) ELSE SlowClicks(beat)) THEN 1
    ELSE 0

(***************************************************************************)
(* Beats explored                                                          *)
(***************************************************************************)

\* longest run of fast time gaps
MaxRun == 10

\* most equal adjacent gaps
MaxEqual == 8

\* most A-B cycles of a page alternation
MaxCycles == 3

\* most shallow clicks of the smaller click beats
MaxClicks == 10

\* most clicks of the long click beats
MaxMono == 20

RECURSIVE Rep(_, _)
\* n copies of a text
Rep(piece, n) == IF n <= 0 THEN <<>> ELSE piece \o Rep(piece, n - 1)

\* one gap token: its symbol and its ticks
Gap(sym, n) == <<sym>> \o DecimalString(n)

Page == <<"!", "p">>

ClickA == <<"*", "a">>

\* runs of fast time gaps (<= 200 ms), cut or not by a slow gap or by a
\* repeat gap
GunBeats(r) ==
    { Page \o Rep(Gap(TokT, 2) \o ClickA, k) \o mid \o Rep(Gap(TokT, 1) \o ClickA, j) :
        k \in (MaxRun - 1)..MaxRun,
        mid \in {<<>>, Gap(TokT, 3) \o ClickA, Gap(RepeatSym(r), 3) \o ClickA},
        j \in {0, 1, MaxRun} }

\* equal gaps next to each other, followed by nothing, by a gap whose ticks
\* start with the same digits, by a different gap, or by an equal gap after
\* a click
MetroBeats(r) ==
    UNION { { Page \o Gap(TokT, v) \o Rep(Gap(sep, v), k - 1) \o last :
                k \in (MaxEqual - 1)..MaxEqual,
                last \in {<<>>, Gap(sep, 10 * v), Gap(sep, 7), ClickA \o Gap(TokT, v)} } :
            v \in {5, 12}, sep \in {TokT, RepeatSym(r)} }

RECURSIVE Timed(_)
\* a beat of clicks with the given time gaps
Timed(gaps) ==
    IF gaps = <<>> THEN <<>> ELSE Gap(TokT, Head(gaps)) \o ClickA \o Timed(Tail(gaps))

StatBeats ==
    { Page \o Timed(g) :
        g \in { <<11, 12, 13, 14>>, <<11, 12, 13>>, <<12, 14, 16, 18>>,
                <<1, 3, 5, 7>>, <<7, 5, 3, 1>>, <<1, 2, 4, 8>>,
                <<100, 110, 121, 133>>, <<20, 20, 20, 20>>, <<20, 21, 20, 21>>,
                <<3, 9, 4, 30>> } }

\* page alternations: the two labels equal or not, after nothing, after one
\* other page or after a shorter alternation of other pages, the last label
\* longer or not
PingBeats ==
    { pre \o Rep(<<"!", "a", "!">> \o b, k) \o post :
        b \in {<<"b">>, <<"a">>},
        pre \in {<<>>, <<"!", "x">>,
                 <<"!", "x", "!", "y", "!", "x", "!", "y", "~", "5", "*", "e">>},
        k \in (MaxCycles - 1)..MaxCycles,
        post \in {<<>>, <<"c">>, <<"~", "4", "*", "e">>} }

\* clicks with a depth prefix: shallow ones (depth 2) and deep ones (depth 3)
SurfBeats ==
    { Page \o Rep(<<"*", "2", "a">>, sh) \o Rep(<<"*", "3", "b">>, dp) :
        sh \in ((MaxClicks - 2)..MaxClicks) \cup {2 * MaxClicks - 2, 2 * MaxClicks - 1},
        dp \in 0..2 }

\* long click beats: one click type, with or without a depth prefix, and
\* some other types
MonoBeats ==
    { Page \o Rep(Gap(TokT, 5) \o c, n) \o other :
        c \in {ClickA, <<"*", "1", "a">>},
        n \in (MaxMono - 1)..MaxMono,
        other \in {<<>>, <<"~", "5", "*", "b", "~", "5", "*", "c">>,
                   <<"~", "5", "*", "b", "~", "5", "*", "c", "~", "5", "*", "d">>} }

\* the example patterns of humanPattern and botPattern
ExampleBeats ==
    { Page \o g \o tail :
        g \in { <<"~", "6", "/", "7", "/", "8">>, <<"~", "6", "/", "7">>,
                <<"~", "6", "0", "/", "3", "0", "/", "2", "0">>,
                <<"~", "1", "/", "2", "/", "3">>,
                <<"~", "3", "*", "e", "~", "1", "5", "/", "1", "2", "/", "1", "4">>,
                <<"~", "3", "0", ".", "5", "0", ".", "2", "0">>,
                <<"~", "3", "0", ".", "5", "0">>,
                <<"~", "3", "0", "*", "e", ".", "5", ".", "5">> },
        tail \in { AreYouHuman, AreYouHuman \o <<"~", "1", "2">>,
                   AreYouHuman \o ClickA, Buy } }

PlainBeats == { <<>>, <<"!", "p", "~", "3", "0", "*", "i">> }

Beats(r) ==
    GunBeats(r) \cup MetroBeats(r) \cup StatBeats \cup PingBeats \cup SurfBeats
        \cup MonoBeats \cup ExampleBeats \cup PlainBeats

\* a rhythm cookie value with the beat at its end:
\*   echo_time_hash_device_referrer_scrolls_clicks_duration_beat
Fragment(beat) ==
    <<"0", "_", "_", "_", "0", "_", "1", "_", "5", "_", "3", "_", "2", "0", "_">> \o beat

\* most rhythm cookies of a request whose every cookie varies
MaxScan == 3

\* beats for the rhythm loop: empty, matching nothing, matching a bot
\* detector, matching the human detector, and matching both
ScanBeats(r) ==
    { <<>>,
      <<"!", "p", "~", "3", "0", "*", "i">>,
      <<"!", "p", "~", "1", "~", "3", "~", "5", "~", "7">>,
      IF r = "early" THEN <<"~", "3", "0", ".", "5", "0", ".", "2", "0">> \o Buy
      ELSE <<"~", "6", "/", "7", "/", "8">> \o AreYouHuman,
      IF r = "early"
      THEN <<"!", "p", "~", "1", "1", "~", "1", "2", "~", "1", "3", "~", "1", "4",
             ".", "2", "0", ".", "3", "0">> \o Buy
      ELSE <<"~", "1", "1", "~", "1", "2", "~", "1", "3", "~", "1", "4">>
              \o AreYouHuman }

RECURSIVE ScanRuns(_, _)
\* the sequences of n rhythm cookie values with beats of ScanBeats
ScanRuns(r, n) ==
    IF n = 0 THEN { <<>> }
    ELSE { <<Fragment(b)>> \o run : b \in ScanBeats(r), run \in ScanRuns(r, n - 1) }

\* the rhythm cookies of one request: one fragment, two with the first
\* one's beat empty or matching nothing, or up to MaxScan of ScanBeats
Rhythms(r) ==
    { <<Fragment(b)>> : b \in Beats(r) }
        \cup { <<Fragment(e), Fragment(b)>> : e \in PlainBeats, b \in StatBeats }
        \cup UNION { ScanRuns(r, n) : n \in 2..MaxScan }

ScanCookies ==
    { <<"0", "0", "0", "_", "1", "7", "_", "x", "7", "_", "_", "_", "2">>,
      <<"1", "1", "0", "_", "1", "7", "_", "x", "7", "_", "_", "_", "2">> }

(***************************************************************************)
(* Live streaming handler with the rhythm loop of scan                     *)
(***************************************************************************)

\* const p = match[2].split('_'); data.beat = p.slice(8).join('_')
BeatOf(fragment) == Join(SliceFrom(Split(fragment, "_"), 8), "_")

ScoreName == <<"s", "c", "o", "r", "e", "=">>

RhythmName == <<"r", "h", "y", "t", "h", "m", "_">>

RECURSIVE RhythmCookies(_, _)
\* the rhythm cookies number n and up of a Cookie header, each after '; '
RhythmCookies(values, n) ==
    IF values = <<>> THEN <<>>
    ELSE <<";", " ">> \o RhythmName \o DecimalString(n) \o <<"=">> \o Head(values)
            \o RhythmCookies(Tail(values), n + 1)

\* request.headers.get("Cookie"): the score cookie, then the rhythm cookies
Cookies(value, values) == ScoreName \o value \o RhythmCookies(values, 1)

\* last position of the run of [^;] that starts at position i
ValueEnd(s, i) ==
    LET stops == {k \in i..Len(s) : s[k] = ";"}
    IN IF stops = {} THEN Len(s) ELSE FirstOf(stops) - 1

\* cookies.match(/score=([^;]+)/)[1]  (no match: match is null and [1] throws;
\* every header explored has a score cookie)
ScoreValue(s) ==
    LET starts == {j \in 1..(Len(s) - Len(ScoreName)) :
                      /\ SubSeq(s, j, j + Len(ScoreName) - 1) = ScoreName
                      /\ s[j + Len(ScoreName)] # ";"}
    IN IF starts = {} THEN Undefined
       ELSE LET j == FirstOf(starts) + Len(ScoreName)
            IN SubSeq(s, j, ValueEnd(s, j))

\* rhythm.exec found nothing: null, and lastIndex is 0 again
NoMatch == [value |-> Undefined, last |-> 0]

\* rhythm.exec(cookies) with rhythm = /rhythm_(\d+)=([^;]+)/g and
\* rhythm.lastIndex = last: group 2 of the leftmost match at or after last,
\* and the new lastIndex
ExecRhythm(s, last) ==
    LET starts == {j \in (last + 1)..(Len(s) - Len(RhythmName) - 2) :
                      /\ SubSeq(s, j, j + Len(RhythmName) - 1) = RhythmName
                      /\ IsDigit(s[j + Len(RhythmName)])
                      /\ LET e == DigitsEnd(s, j + Len(RhythmName))
                         IN e + 2 <= Len(s) /\ s[e + 1] = "=" /\ s[e + 2] # ";"}
    IN IF starts = {} THEN NoMatch
       ELSE LET e == DigitsEnd(s, FirstOf(starts) + Len(RhythmName))
                end == ValueEnd(s, e + 2)
            IN [value |-> SubSeq(s, e + 2, end), last |-> end]

InitScan ==
    /\ rev \in {"early", "late"}
    /\ lpc = "idle"
    /\ cookie \in ScanCookies
    /\ req = NoRequest
    /\ score = <<>>
    /\ save = <<>>
    /\ setCookie = Undefined
    /\ rhythm \in Rhythms(rev)
    /\ cursor = 0
    /\ data = Undefined
    /\ calls = <<>>
    /\ inflight = {}
    /\ IdleEcho

\* const raw = ...; const score = ...; const rhythm = /.../g;
\* let match, bot = null, human = null;
ScanStart ==
    /\ lpc = "idle"
    /\ \E method \in {"HEAD", "GET"} :
          req' = [method |-> method, bot |-> Null, human |-> 0]
    /\ score' = ScanScore(ScoreValue(Cookies(cookie, rhythm)))
    /\ save' = <<>>
    /\ setCookie' = Undefined
    /\ cursor' = 0
    /\ data' = Undefined
    /\ calls' = <<>>
    /\ lpc' = "scan"
    /\ UNCHANGED <<rev, cookie, rhythm, inflight>>
    /\ UNCHANGED echoVars

\* a loop body that calls humanPattern whatever botPattern returned
ScanFragmentBoth ==
    /\ lpc = "scan"
    /\ req.bot = Null /\ req.human = 0
    /\ LET match == ExecRhythm(Cookies(cookie, rhythm), cursor)
           beat == BeatOf(match.value)
           bot == BotPattern(rev, beat)
           human == HumanPattern(rev, beat)
       IN /\ match # NoMatch
          /\ cursor' = match.last
          /\ data' = beat
          /\ IF beat = <<>>
             THEN UNCHANGED <<req, calls>>
             ELSE /\ req' = [req EXCEPT !.bot = bot, !.human = human]
                  /\ calls' = calls \o <<[beat |-> beat, detector |-> "bot"],
                                         [beat |-> beat, detector |-> "human"]>>
    /\ UNCHANGED <<rev, lpc, cookie, score, save, setCookie, rhythm, inflight>>
    /\ UNCHANGED echoVars

\* one turn of  while ((match = rhythm.exec(cookies))) { ...
\*   if (!data.beat) continue;
\*   if ((bot = botPattern(data)) || (human = humanPattern(data))) break; }
ScanFragment ==
    /\ lpc = "scan"
    /\ req.bot = Null /\ req.human = 0
    /\ LET match == ExecRhythm(Cookies(cookie, rhythm), cursor)
           beat == BeatOf(match.value)
           bot == BotPattern(rev, beat)
           human == HumanPattern(rev, beat)
       IN /\ match # NoMatch
          /\ cursor' = match.last
          /\ data' = beat
          /\ IF beat = <<>>
             THEN UNCHANGED <<req, calls>>
             ELSE IF bot # Null
             THEN /\ req' = [req EXCEPT !.bot = bot]
                  /\ calls' = Append(calls, [beat |-> beat, detector |-> "bot"])
             ELSE /\ req' = [req EXCEPT !.human = human]
                  /\ calls' = calls \o <<[beat |-> beat, detector |-> "bot"],
                                         [beat |-> beat, detector |-> "human"]>>
    /\ UNCHANGED <<rev, lpc, cookie, score, save, setCookie, rhythm, inflight>>
    /\ UNCHANGED echoVars

\* the loop ends (exec returns null, or break); return {bot, human, score};
\* and in the handler
\* if (!((STREAMING.BOT && match.bot) || (STREAMING.HUMAN && match.human)))
\*     return ...;
\* const save = match.score[0];
ScanReturn ==
    /\ lpc = "scan"
    /\ \/ ExecRhythm(Cookies(cookie, rhythm), cursor) = NoMatch
       \/ req.bot # Null
       \/ req.human # 0
    /\ save' = score[1]
    /\ lpc' = IF BotHit(rev, req) \/ HumanHit(rev, req) THEN "security" ELSE "idle"
    /\ UNCHANGED <<rev, cookie, req, score, setCookie, scanVars, inflight>>
    /\ UNCHANGED echoVars

NextScan ==
    \/ ScanStart
    \/ ScanFragment
    \/ ScanReturn
    \/ LiveSecurity
    \/ LivePersonalization
    \/ LiveRespond

SpecScan == InitScan /\ [][NextScan]_vars

(***************************************************************************)
(* Properties of botPattern and humanPattern                               *)
(***************************************************************************)

\* botPattern has answered for the beat in data, and req.bot is its answer
Applied == data # Undefined /\ data # <<>>

\* the names of the detectors in the order of the list
DetectorNames ==
    <<"MachineGun:", "Metronome:", "NoVariance:", "Arithmetic:", "Geometric:",
      "PingPong:", "Surface:", "Monotonous:">>

\* the detectors of the list whose rule holds, given their answers
Holding(labels) == {i \in 1..Len(DetectorNames) : labels[i] # Null}

\* the label is that of the detector with this name
Named(label, name) == label # Null /\ label[1] = name

\* C12: botPattern returns nothing or one label, and when the rules of one
\* or more of the eight detectors hold for the beat, the label is that of
\* the earliest of them in the order MachineGun, Metronome, NoVariance,
\* Arithmetic, Geometric, PingPong, Surface, Monotonous; the gaps
\* 11,12,13,14 yield the NoVariance label.
C12_EarliestDetector ==
    Applied =>
        /\ \/ req.bot = Null
           \/ /\ \E i \in 1..Len(DetectorNames) : req.bot[1] = DetectorNames[i]
                 \/ (rev = "late" /\ req.bot[1] = "BotExample:")
              /\ \A j \in 2..Len(req.bot) : Len(req.bot[j]) = 1
        /\ LET labels == Detectors(rev, data)
               holding == Holding(labels)
           IN holding # {} =>
                 LET i == FirstOf(holding)
                 IN req.bot = labels[i] /\ Named(req.bot, DetectorNames[i])
        /\ data = Page \o Timed(<<11, 12, 13, 14>>) =>
              req.bot = <<"NoVariance:", "1", ".", "1">>

\* the rules of NoVariance and of Arithmetic both hold for the beat examined
C12_Witness ==
    /\ Applied
    /\ {3, 4} \subseteq Holding(Detectors(rev, data))
    /\ Named(req.bot, "NoVariance:")
    /\ lpc = "security"

\* a time gap of at most 200 ms
Fast(ticks) == ticks * TIC <= 200

\* some run of n consecutive time gaps of the beat, each of at most 200 ms
FastRun(beat, n) ==
    LET values == TimeValues(beat)
    IN \E i \in 1..(Len(values) - n + 1) :
          \A j \in i..(i + n - 1) : Fast(values[j])

\* C13: botPattern answers with a MachineGun label exactly when the beat has
\* at least 10 time gaps and 10 consecutive ones of at most 200 ms each; the
\* label is then MachineGun:10, and a longest run of 9 gives no MachineGun
\* label.
C13_MachineGun ==
    Applied =>
        /\ Named(req.bot, "MachineGun:") <=>
              (Len(TimeValues(data)) >= 10 /\ FastRun(data, 10))
        /\ Named(req.bot, "MachineGun:") => req.bot = <<"MachineGun:", "1", "0">>
        /\ (FastRun(data, 9) /\ ~FastRun(data, 10)) => ~Named(req.bot, "MachineGun:")

\* a beat of more than 10 time gaps with a slow one among them fired
C13_Witness ==
    /\ Applied
    /\ Named(req.bot, "MachineGun:")
    /\ LET values == TimeValues(data)
       IN \E i \in 1..Len(values) : ~Fast(values[i])
    /\ lpc = "security"

\* the symbols that start a gap token
GapSyms(r) == {TokT, RepeatSym(r)}

RECURSIVE AdjacentEqual(_, _, _, _, _)
\* n gap tokens of v ticks each stand next to each other from position i on
AdjacentEqual(s, syms, i, v, n) ==
    \/ n = 0
    \/ /\ i < Len(s)
       /\ s[i] \in syms
       /\ IsDigit(s[i + 1])
       /\ DecimalValue(SubSeq(s, i + 1, DigitsEnd(s, i + 1))) = v
       /\ AdjacentEqual(s, syms, DigitsEnd(s, i + 1) + 1, v, n - 1)

\* the tick values v such that the beat has n directly adjacent gap tokens
\* of v ticks each
EqualGaps(s, syms, n) ==
    { DecimalValue(SubSeq(s, i + 1, DigitsEnd(s, i + 1))) :
        i \in { j \in 1..(Len(s) - 1) :
                  /\ s[j] \in syms
                  /\ IsDigit(s[j + 1])
                  /\ AdjacentEqual(s, syms, j,
                        DecimalValue(SubSeq(s, j + 1, DigitsEnd(s, j + 1))), n) } }

\* C14 (as claimed): when MachineGun does not answer, botPattern answers
\* with a Metronome label if and only if the beat has at least 8 directly
\* adjacent gap tokens of one tick value, and the label carries that value;
\* 7 equal adjacent gaps followed by a different gap give no Metronome label.
C14_Metronome ==
    (Applied /\ ~Named(req.bot, "MachineGun:")) =>
        /\ Named(req.bot, "Metronome:") <=> EqualGaps(data, GapSyms(rev), 8) # {}
        /\ Named(req.bot, "Metronome:") =>
              DecimalValue(Tail(req.bot)) \in EqualGaps(data, GapSyms(rev), 8)

RECURSIVE AdjacentPages(_, _, _)
\* the labels of the page tokens that stand next to each other from
\* position i on, n of them at most
AdjacentPages(s, i, n) ==
    IF n = 0 \/ i > Len(s) THEN <<>>
    ELSE IF s[i] = TokP /\ LabelEnd(s, i) > i
         THEN <<SubSeq(s, i + 1, LabelEnd(s, i))>>
                 \o AdjacentPages(s, LabelEnd(s, i) + 1, n - 1)
         ELSE <<>>

\* somewhere in the beat two distinct page labels alternate for 3 cycles
Alternation(s) ==
    \E i \in 1..Len(s) :
        LET t == AdjacentPages(s, i, 6)
        IN /\ Len(t) = 6
           /\ t[1] = t[3] /\ t[3] = t[5]
           /\ t[2] = t[4] /\ t[4] = t[6]
           /\ t[1] # t[2]

\* C15 (as claimed): when none of the five detectors before it answers,
\* botPattern answers with a PingPong label if and only if two distinct
\* page labels alternate as adjacent page tokens for at least 3 cycles
\* anywhere in the beat.
C15_PingPong ==
    (Applied /\ \A i \in 1..5 : ~Named(req.bot, DetectorNames[i])) =>
        (Named(req.bot, "PingPong:") <=> Alternation(data))

\* the positions of the element tokens with a numeric depth prefix
Deep(s) == {i \in 1..(Len(s) - 1) : s[i] = TokE /\ IsDigit(s[i + 1])}

\* those of depth at most 2
Shallow(s) ==
    {i \in Deep(s) : DecimalValue(SubSeq(s, i + 1, DigitsEnd(s, i + 1))) <= 2}

\* C16 (as claimed): when none of the six detectors before it answers,
\* botPattern answers with a Surface label whenever the beat has at least 10
\* element tokens with a depth prefix and at least 90% of them have depth at
\* most 2, and does not with fewer than 10 such elements or a smaller share.
C16_Surface ==
    (Applied /\ \A i \in 1..6 : ~Named(req.bot, DetectorNames[i])) =>
        LET n == Cardinality(Deep(data))
            shallow == Cardinality(Shallow(data))
        IN /\ (n >= 10 /\ 10 * shallow >= 9 * n) => Named(req.bot, "Surface:")
           /\ (n < 10 \/ 10 * shallow < 9 * n) => ~Named(req.bot, "Surface:")

\* C17: humanPattern returns nothing or position 1 for every beat, so the
\* personalization update of a request leaves every digit of the field but
\* the one at position 1 as it was, the security digit at position 0
\* included.
C17_HumanPositionOne ==
    /\ [](req.human \in {0, 1})
    /\ [][lpc = "personal" =>
            /\ Len(score'[1]) = Len(score[1])
            /\ \A i \in 1..Len(score[1]) : i # 2 => score'[1][i] = score[1][i]]_vars

\* a human hit has set the flag at position 1
C17_Witness ==
    /\ lpc = "respond"
    /\ Applied
    /\ req.human = 1
    /\ save[2] = "0"
    /\ score[1][2] = "1"

(***************************************************************************)
(* Properties of the live streaming response                               *)
(***************************************************************************)

\* C19: a live streaming response carries a Set-Cookie only when the request
\* method is HEAD and the digit field after the updates differs from the
\* received one; a request with no detection, a bot hit against security
\* level 2 and a human hit on a flag that is not '0' are answered without
\* Set-Cookie, and so is every request of another method.
C19_SetCookieOnlyOnChange ==
    [][lpc' = "idle" =>
        LET received == Split(cookie, "_")[1]
        IN /\ setCookie' # Undefined =>
                 /\ req'.method = "HEAD"
                 /\ Split(setCookie', "_")[1] # received
           /\ ~(BotHit(rev, req') \/ HumanHit(rev, req')) => setCookie' = Undefined
           /\ (BotHit(rev, req') /\ received[1] = "2") => setCookie' = Undefined
           /\ (HumanHit(rev, req') /\ ~BotHit(rev, req')
                  /\ received[req'.human + 1] # "0") => setCookie' = Undefined
           /\ req'.method # "HEAD" => setCookie' = Undefined]_vars

\* a HEAD request with a detection was answered with a Set-Cookie
C19_Witness ==
    /\ lpc = "idle"
    /\ req.method = "HEAD"
    /\ setCookie # Undefined
    /\ cookie = setCookie
    /\ save # score[1]

(***************************************************************************)
(* Properties of the summarization call                                    *)
(***************************************************************************)

\* the summarization call has been started
Dispatched == ai \in {"pending", "succeeded", "failed"}

\* C18: the merged record is computed before the summarization call is
\* started and no later step changes it; the handler can answer while the
\* call is pending; the answer is OK whatever the state of the call; and a
\* call that succeeds or fails changes neither the answer nor the merged
\* record.
C18_ResponseIgnoresAi ==
    /\ [](Dispatched => merge # NoMerge)
    /\ []((pc = "respond" /\ ai = "pending") => ENABLED Respond)
    /\ []((pc = "done" /\ merge # NoMerge) => response = "OK")
    /\ [][ai # "none" => merge' = merge]_vars
    /\ [][(ai = "pending" /\ ai' # "pending") =>
            UNCHANGED <<pc, merge, response, body, map, first, loop>>]_vars

\* the handler has answered OK while the call it started is still pending
C18_Witness ==
    /\ pc = "done"
    /\ response = "OK"
    /\ ai = "pending"
    /\ merge # NoMerge

(***************************************************************************)
(* Live streaming handler with overlapping requests                        *)
(***************************************************************************)

\* most Set-Cookie responses on their way to the client at one time
MaxInFlight == 2

InitOverlap ==
    /\ rev \in {"early", "late"}
    /\ lpc = "idle"
    /\ cookie \in ScanCookies
    /\ req = NoRequest
    /\ score = <<>>
    /\ save = <<>>
    /\ setCookie = Undefined
    /\ rhythm = <<>>
    /\ cursor = 0
    /\ data = Undefined
    /\ calls = <<>>
    /\ inflight = {}
    /\ IdleEcho

\* the response of LiveRespond, sent and not yet applied by the client:
\* the next request can be sent, with the score the client holds, before
\* this response arrives
LiveRespondLater ==
    /\ lpc = "respond"
    /\ IF req.method = "HEAD" /\ score[1] # save
       THEN /\ Cardinality(inflight \cup {SetCookieValue(score)}) <= MaxInFlight
            /\ setCookie' = SetCookieValue(score)
            /\ inflight' = inflight \cup {SetCookieValue(score)}
       ELSE /\ setCookie' = Undefined
            /\ UNCHANGED inflight
    /\ lpc' = "idle"
    /\ UNCHANGED <<rev, cookie, req, score, save, scanVars>>
    /\ UNCHANGED echoVars

\* a response arrives, in any order, and the client stores the value its
\* Set-Cookie header carries
ClientApply ==
    /\ \E value \in inflight :
          /\ cookie' = value
          /\ inflight' = inflight \ {value}
    /\ UNCHANGED <<rev, lpc, req, score, save, setCookie, scanVars>>
    /\ UNCHANGED echoVars

NextOverlap ==
    \/ LiveScan
    \/ LiveSecurity
    \/ LivePersonalization
    \/ LiveRespondLater
    \/ ClientApply

SpecOverlap == InitOverlap /\ [][NextOverlap]_vars

\* C20 (as claimed): over any sequence of live streaming requests against
\* one client-held score, overlapping ones included, with their Set-Cookie
\* responses applied in any order, the security level the client holds
\* never decreases and no flag it holds goes from 1 back to 0.
C20_NeverRegresses ==
    [][cookie[1] \in Levels =>
          /\ cookie'[1] \in Levels
          /\ DigitVal(cookie'[1]) >= DigitVal(cookie[1])
          /\ \A i \in 2..Len(FieldOf(cookie)) :
                FieldOf(cookie)[i] = "1" => FieldOf(cookie')[i] = "1"]_vars


(***************************************************************************)
(* Properties of the rhythm loop of scan                                   *)
(***************************************************************************)

\* the rhythm cookies whose beat is not empty and is matched by the bot
\* detector or by the human detector
Hits ==
    {i \in 1..Len(rhythm) :
        LET beat == BeatOf(rhythm[i])
        IN beat # <<>> /\ (BotPattern(rev, beat) # Null \/ HumanPattern(rev, beat) # 0)}

\* the rhythm cookie the loop stops at: the first of the hits, or the last
\* one
Stop(hits) == IF hits = {} THEN Len(rhythm) ELSE FirstOf(hits)

\* what the first of the hits yields: the bot label, or failing that the
\* human position
FirstHit(hits) ==
    IF hits = {} THEN [bot |-> Null, human |-> 0]
    ELSE LET beat == BeatOf(rhythm[FirstOf(hits)])
             bot == BotPattern(rev, beat)
         IN [bot |-> bot,
             human |-> IF bot # Null THEN 0 ELSE HumanPattern(rev, beat)]

\* the non-empty beats of the rhythm cookies up to the one the loop stops
\* at, in cookie order
Evaluated(stop) ==
    SelectSeq([i \in 1..stop |-> BeatOf(rhythm[i])], LAMBDA beat : beat # <<>>)

\* the beats botPattern was called with, in the order of the calls
BotCalls ==
    LET made == SelectSeq(calls, LAMBDA call : call.detector = "bot")
    IN [k \in 1..Len(made) |-> made[k].beat]

\* the positions where two fields of digits differ
Changed(before, after) ==
    {i \in 1..Len(before) : i > Len(after) \/ after[i] # before[i]}

\* C21: scan evaluates the rhythm fragments in cookie order, skips the ones
\* with an empty beat and stops at the first fragment the bot detector or,
\* failing that, the human detector matches: its result never has both bot
\* and human set, the human detector is called only with a beat the bot
\* detector did not match, and one request changes at most one digit of the
\* score field.
C21_FirstMatchWins ==
    /\ [](~(req.bot # Null /\ req.human # 0))
    /\ [][\A k \in (Len(calls) + 1)..Len(calls') :
              calls'[k].detector = "human" =>
                  /\ k > 1
                  /\ calls'[k - 1] = [beat |-> calls'[k].beat, detector |-> "bot"]
                  /\ BotPattern(rev, calls'[k].beat) = Null]_calls
    /\ [][lpc = "scan" /\ lpc' # "scan" =>
            LET hits == Hits
                hit == FirstHit(hits)
            IN /\ req.bot = hit.bot
               /\ req.human = hit.human
               /\ BotCalls = Evaluated(Stop(hits))]_vars
    /\ [](lpc = "respond" =>
            /\ Len(score[1]) = Len(save)
            /\ Cardinality(Changed(save, score[1])) <= 1)
    /\ [][/\ Len(FieldOf(cookie')) = Len(FieldOf(cookie))
          /\ Cardinality(Changed(FieldOf(cookie), FieldOf(cookie'))) <= 1]_cookie

\* a request whose first rhythm cookie has an empty beat and whose second
\* one is matched by both detectors, with a third the bot detector matches:
\* the scan stopped at the second with the bot label only, and the score
\* field changed
C21_Witness ==
    /\ lpc = "respond"
    /\ Len(rhythm) > 2
    /\ Stop(Hits) = 2
    /\ BeatOf(rhythm[1]) = <<>>
    /\ BotPattern(rev, BeatOf(rhythm[2])) # Null
    /\ HumanPattern(rev, BeatOf(rhythm[2])) # 0
    /\ BotPattern(rev, BeatOf(rhythm[3])) # Null
    /\ req.bot # Null /\ req.human = 0
    /\ Len(calls) = 1
    /\ score[1] # save

====
